---------------------------- MODULE Spec2Model ----------------------------
(***************************************************************************)
(* A model of lot-calc.py, the interactive risk / lot-size calculator.     *)
(*                                                                         *)
(* The program computes with Python floats (IEEE-754 binary64), and        *)
(* several of its properties depend on how those round, so the model       *)
(* computes with binary64 values too: a finite float is a sign, a 53-bit   *)
(* significand and a binary exponent, and every arithmetic operation is    *)
(* the exact result rounded to nearest, ties to even.  Significands do     *)
(* not fit the model checker's integers, so naturals are kept as           *)
(* little-endian sequences of 15-bit limbs.  The exponent is unbounded:    *)
(* the inputs of the model stay far from overflow and underflow.           *)
(***************************************************************************)
EXTENDS Integers, Sequences, FiniteSets, TLC

-----------------------------------------------------------------------------
(* Natural numbers of any size: little-endian limbs, no high zero limb.    *)

BASE == 2^15

RECURSIVE BNorm(_)
BNorm(a) ==
    IF a = <<>> THEN <<>>
    ELSE IF a[Len(a)] = 0 THEN BNorm(SubSeq(a, 1, Len(a) - 1))
    ELSE a

RECURSIVE BFromNat(_)
BFromNat(n) ==
    IF n = 0 THEN <<>> ELSE <<n % BASE>> \o BFromNat(n \div BASE)

RECURSIVE BCmpAt(_, _, _)
BCmpAt(a, b, i) ==
    IF i = 0 THEN 0
    ELSE IF a[i] > b[i] THEN 1
    ELSE IF a[i] < b[i] THEN -1
    ELSE BCmpAt(a, b, i - 1)

\* -1, 0, 1 as a < b, a = b, a > b
BCmp(a, b) ==
    IF Len(a) > Len(b) THEN 1
    ELSE IF Len(a) < Len(b) THEN -1
    ELSE BCmpAt(a, b, Len(a))

BLimb(a, i) == IF i <= Len(a) THEN a[i] ELSE 0

RECURSIVE BAddAt(_, _, _, _)
BAddAt(a, b, i, c) ==
    IF i > Len(a) /\ i > Len(b)
    THEN (IF c = 0 THEN <<>> ELSE <<c>>)
    ELSE LET t == BLimb(a, i) + BLimb(b, i) + c
         IN  <<t % BASE>> \o BAddAt(a, b, i + 1, t \div BASE)

BAdd(a, b) == BAddAt(a, b, 1, 0)

RECURSIVE BSubAt(_, _, _, _)
BSubAt(a, b, i, c) ==
    IF i > Len(a) THEN <<>>
    ELSE LET t == a[i] - BLimb(b, i) - c
         IN  <<t % BASE>> \o BSubAt(a, b, i + 1, IF t < 0 THEN 1 ELSE 0)

\* a - b, for a >= b
BSub(a, b) == BNorm(BSubAt(a, b, 1, 0))

RECURSIVE BMulSmallAt(_, _, _, _)
BMulSmallAt(a, k, i, c) ==
    IF i > Len(a)
    THEN (IF c = 0 THEN <<>> ELSE <<c>>)
    ELSE LET t == a[i] * k + c
         IN  <<t % BASE>> \o BMulSmallAt(a, k, i + 1, t \div BASE)

\* a * k, for 0 <= k < BASE
BMulSmall(a, k) == IF k = 0 THEN <<>> ELSE BMulSmallAt(a, k, 1, 0)

BShlLimbs(a, n) ==
    IF a = <<>> \/ n = 0 THEN a ELSE [i \in 1..n |-> 0] \o a

RECURSIVE BMulAt(_, _, _)
BMulAt(a, b, i) ==
    IF i > Len(b) THEN <<>>
    ELSE BAdd(BMulSmall(a, b[i]), BShlLimbs(BMulAt(a, b, i + 1), 1))

BMul(a, b) == IF a = <<>> \/ b = <<>> THEN <<>> ELSE BMulAt(a, b, 1)

\* a * 2^n
BShl(a, n) == BShlLimbs(BMulSmall(a, 2^(n % 15)), n \div 15)

RECURSIVE BDivSmallAt(_, _, _, _)
BDivSmallAt(a, k, i, r) ==
    IF i = 0 THEN <<>>
    ELSE LET t == r * BASE + a[i]
         IN  BDivSmallAt(a, k, i - 1, t % k) \o <<t \div k>>

\* a \div k, for 0 < k < BASE
BDivSmall(a, k) == BNorm(BDivSmallAt(a, k, Len(a), 0))

\* a \div 2^n
BShr(a, n) ==
    IF n \div 15 >= Len(a) THEN <<>>
    ELSE BDivSmall(SubSeq(a, n \div 15 + 1, Len(a)), 2^(n % 15))

RECURSIVE BitLenSmall(_)
BitLenSmall(k) == IF k = 0 THEN 0 ELSE 1 + BitLenSmall(k \div 2)

BBitLen(a) ==
    IF a = <<>> THEN 0 ELSE 15 * (Len(a) - 1) + BitLenSmall(a[Len(a)])

BOdd(a) == a # <<>> /\ a[1] % 2 = 1

\* The quotient digit of r by d, for r < d * BASE and d's top limb >= BASE/2:
\* the estimate from the top limbs is at most 2 too large.
RECURSIVE BFixDigit(_, _, _)
BFixDigit(r, d, q) ==
    IF BCmp(BMulSmall(d, q), r) > 0 THEN BFixDigit(r, d, q - 1) ELSE q

BDigitEst(top, d1) ==
    IF top \div d1 > BASE - 1 THEN BASE - 1 ELSE top \div d1

BDigit(r, d) ==
    BFixDigit(r, d, BDigitEst(BLimb(r, Len(d) + 1) * BASE + BLimb(r, Len(d)),
                              d[Len(d)]))

\* <<quotient, remainder>> of a by d, d normalised (top limb >= BASE/2),
\* taking a's limbs from i down; r is the remainder and acc the quotient
\* so far
RECURSIVE BDivAt(_, _, _, _, _)
BDivStep2(a, d, i, r1, acc, q) ==
    BDivAt(a, d, i - 1, BSub(r1, BMulSmall(d, q)), <<q>> \o acc)

BDivStep(a, d, i, r1, acc) == BDivStep2(a, d, i, r1, acc, BDigit(r1, d))

BDivAt(a, d, i, r, acc) ==
    IF i = 0 THEN <<acc, r>>
    ELSE BDivStep(a, d, i, BNorm(<<a[i]>> \o r), acc)

BDivOut(qr) == <<BNorm(qr[1]), qr[2] # <<>>>>

BDivNormal(a1, d1) == BDivOut(BDivAt(a1, d1, Len(a1), <<>>, <<>>))

BDivShift(a, d, sh) == BDivNormal(BShl(a, sh), BShl(d, sh))

\* <<a \div d, whether a % d # 0>>, for d > 0
BDivSticky(a, d) == BDivShift(a, d, 15 - BitLenSmall(d[Len(d)]))

RECURSIVE BPow10(_)
BPow10(d) == IF d = 0 THEN <<1>> ELSE BMulSmall(BPow10(d - 1), 10)

-----------------------------------------------------------------------------
(* Python floats.  k is "fin", "inf" or "nan"; s is the sign bit; a finite *)
(* nonzero value is m * 2^e with 2^52 <= m < 2^53; zero has m = <<>>.      *)

Fin(s, m, e) == [k |-> "fin", s |-> s, m |-> m, e |-> e]
FZero(s)     == Fin(s, <<>>, 0)
FInf(s)      == [k |-> "inf", s |-> s, m |-> <<>>, e |-> 0]
FNaN         == [k |-> "nan", s |-> 0, m |-> <<>>, e |-> 0]

IsNaN(x)  == x.k = "nan"
IsInf(x)  == x.k = "inf"
IsFin(x)  == x.k = "fin"
IsZero(x) == x.k = "fin" /\ x.m = <<>>

\* round to nearest, ties to even: c is the order (-1, 0, 1) of the part
\* dropped against half a unit
RoundUp(c, sticky, odd) == c > 0 \/ (c = 0 /\ (sticky \/ odd))

Renorm(s, m, e) ==
    IF BBitLen(m) > 53 THEN Fin(s, BShr(m, 1), e + 1) ELSE Fin(s, m, e)

RoundBits3(s, e, m, up) ==
    IF up THEN Renorm(s, BAdd(m, <<1>>), e) ELSE Fin(s, m, e)

RoundBits2(s, q, sticky, e0, t, m) ==
    RoundBits3(s, e0 + t, m,
               RoundUp(BCmp(BSub(q, BShl(m, t)), BShl(<<1>>, t - 1)),
                       sticky, BOdd(m)))

RoundBits1(s, q, sticky, e0, t) ==
    IF t <= 0 THEN Fin(s, BShl(q, -t), e0 + t)
    ELSE RoundBits2(s, q, sticky, e0, t, BShr(q, t))

\* q * 2^e0, plus less than one unit of q when sticky, rounded to 53 bits,
\* to nearest, ties to even
RoundBits(s, q, sticky, e0) ==
    IF q = <<>> THEN FZero(s)
    ELSE RoundBits1(s, q, sticky, e0, BBitLen(q) - 53)

RoundQuot(s, e, qs) == RoundBits(s, qs[1], qs[2], e)

RoundRat1(s, N, D, e0, sh) ==
    RoundQuot(s, e0 - sh,
              BDivSticky(BShl(N, IF sh > 0 THEN sh ELSE 0),
                         BShl(D, IF sh < 0 THEN -sh ELSE 0)))

\* (N / D) * 2^e0 rounded, for N > 0 and D > 0: the quotient is taken with
\* at least 55 bits, so that the remainder only ever breaks a tie
RoundRat(s, N, D, e0) ==
    RoundRat1(s, N, D, e0, 55 - (BBitLen(N) - BBitLen(D)))

\* the float nearest the rational n / d, n any integer, d > 0
FromRat(n, d) ==
    IF n = 0 THEN FZero(0)
    ELSE RoundRat(IF n < 0 THEN 1 ELSE 0,
                  BFromNat(IF n < 0 THEN -n ELSE n), BFromNat(d), 0)

\* float(n) of a Python int n
FromInt(n) ==
    RoundBits(IF n < 0 THEN 1 ELSE 0, BFromNat(IF n < 0 THEN -n ELSE n), FALSE, 0)

FNeg(x) == IF IsNaN(x) THEN x ELSE [x EXCEPT !.s = 1 - x.s]
FAbs(x) == IF IsNaN(x) THEN x ELSE [x EXCEPT !.s = 0]

Xor(a, b) == (a + b) % 2

FMul(x, y) ==
    IF IsNaN(x) \/ IsNaN(y) THEN FNaN
    ELSE IF IsInf(x) \/ IsInf(y)
         THEN (IF IsZero(x) \/ IsZero(y) THEN FNaN ELSE FInf(Xor(x.s, y.s)))
    ELSE IF IsZero(x) \/ IsZero(y) THEN FZero(Xor(x.s, y.s))
    ELSE RoundBits(Xor(x.s, y.s), BMul(x.m, y.m), FALSE, x.e + y.e)

\* x / y for y # 0 (Python raises ZeroDivisionError on y = 0: the callers
\* test for it)
FDiv(x, y) ==
    IF IsNaN(x) \/ IsNaN(y) THEN FNaN
    ELSE IF IsInf(x) THEN (IF IsInf(y) THEN FNaN ELSE FInf(Xor(x.s, y.s)))
    ELSE IF IsInf(y) \/ IsZero(x) THEN FZero(Xor(x.s, y.s))
    ELSE RoundRat(Xor(x.s, y.s), x.m, y.m, x.e - y.e)

\* the sum of sx * X and sy * Y (signs as bits), times 2^lo; c orders X, Y
FAddMag(sx, sy, X, Y, lo, c) ==
    RoundBits(IF sx = sy THEN sx ELSE IF c = 0 THEN 0 ELSE IF c > 0 THEN sx ELSE sy,
              IF sx = sy THEN BAdd(X, Y)
              ELSE IF c > 0 THEN BSub(X, Y) ELSE BSub(Y, X),
              FALSE, lo)

FAddAligned(sx, sy, X, Y, lo) == FAddMag(sx, sy, X, Y, lo, BCmp(X, Y))

FAddAt(x, y, lo) ==
    FAddAligned(x.s, y.s, BShl(x.m, x.e - lo), BShl(y.m, y.e - lo), lo)

FAddFin(x, y) == FAddAt(x, y, IF x.e < y.e THEN x.e ELSE y.e)

FAdd(x, y) ==
    IF IsNaN(x) \/ IsNaN(y) THEN FNaN
    ELSE IF IsInf(x) THEN (IF IsInf(y) /\ x.s # y.s THEN FNaN ELSE x)
    ELSE IF IsInf(y) THEN y
    ELSE IF IsZero(x) /\ IsZero(y)
         THEN FZero(IF x.s = 1 /\ y.s = 1 THEN 1 ELSE 0)
    ELSE IF IsZero(x) THEN y
    ELSE IF IsZero(y) THEN x
    ELSE FAddFin(x, y)

FSub(x, y) == FAdd(x, FNeg(y))

\* the order of the magnitudes of two floats that are not NaN
MagCmp(x, y) ==
    IF IsInf(x) THEN (IF IsInf(y) THEN 0 ELSE 1)
    ELSE IF IsInf(y) THEN -1
    ELSE IF IsZero(x) THEN (IF IsZero(y) THEN 0 ELSE -1)
    ELSE IF IsZero(y) THEN 1
    ELSE IF x.e > y.e THEN 1
    ELSE IF x.e < y.e THEN -1
    ELSE BCmp(x.m, y.m)

Sgn(x) == IF IsZero(x) THEN 0 ELSE 1 - 2 * x.s

\* -1, 0, 1 for two floats that are not NaN
FCmp(x, y) ==
    IF Sgn(x) # Sgn(y) THEN (IF Sgn(x) < Sgn(y) THEN -1 ELSE 1)
    ELSE Sgn(x) * MagCmp(x, y)

\* Python's comparisons: every comparison with NaN is false
FLt(x, y) == ~IsNaN(x) /\ ~IsNaN(y) /\ FCmp(x, y) < 0
FLe(x, y) == ~IsNaN(x) /\ ~IsNaN(y) /\ FCmp(x, y) <= 0
FGt(x, y) == ~IsNaN(x) /\ ~IsNaN(y) /\ FCmp(x, y) > 0
FGe(x, y) == ~IsNaN(x) /\ ~IsNaN(y) /\ FCmp(x, y) >= 0
FEq(x, y) == ~IsNaN(x) /\ ~IsNaN(y) /\ FCmp(x, y) = 0

FFloorNeg(x, q) ==
    [neg |-> TRUE, n |-> IF BShl(q, -x.e) = x.m THEN q ELSE BAdd(q, <<1>>)]

FFloorFrac(x, q) ==
    IF x.s = 0 THEN [neg |-> FALSE, n |-> q] ELSE FFloorNeg(x, q)

\* math.floor of a finite float: the integer, as [neg, n] with value
\* (IF neg THEN -n ELSE n)
FFloor(x) ==
    IF IsZero(x) THEN [neg |-> FALSE, n |-> <<>>]
    ELSE IF x.e >= 0 THEN [neg |-> x.s = 1, n |-> BShl(x.m, x.e)]
    ELSE FFloorFrac(x, BShr(x.m, -x.e))

\* float(i) of a Python int
IntToFloat(i) == RoundBits(IF i.neg THEN 1 ELSE 0, i.n, FALSE, 0)

DecimalUp(N, q, sh) ==
    IF RoundUp(BCmp(BSub(N, BShl(q, sh)), BShl(<<1>>, sh - 1)), FALSE, BOdd(q))
    THEN BAdd(q, <<1>>) ELSE q

DecimalFrac(N, sh) == DecimalUp(N, BShr(N, sh), sh)

\* the integer nearest |x| * 10^d, ties to even, for finite x: the digits
\* of x correctly rounded to d decimal places
DecimalOf(x, d) ==
    IF IsZero(x) THEN <<>>
    ELSE IF x.e >= 0 THEN BMul(BShl(x.m, x.e), BPow10(d))
    ELSE DecimalFrac(BMul(x.m, BPow10(d)), -x.e)

FromDecimal(s, q, d) ==
    IF q = <<>> THEN FZero(s) ELSE RoundRat(s, q, BPow10(d), 0)

\* round(x, d) of a float, d >= 0: x correctly rounded (half to even, on
\* x's exact value) to d decimal places, and that decimal read back
FRound(x, d) ==
    IF ~IsFin(x) \/ IsZero(x) THEN x
    ELSE IF x.e >= 0 THEN x
    ELSE FromDecimal(x.s, DecimalOf(x, d), d)

-----------------------------------------------------------------------------
(* What the user types at a prompt, after strip() and lower(): a decimal   *)
(* number n / 1000, or any other text (the empty line is Txt("")).         *)

Num(n) == [t |-> "num", n |-> n, w |-> ""]
Txt(w) == [t |-> "txt", n |-> 0, w |-> w]

\* float(raw): whether it returns (it raises ValueError otherwise), and
\* what.  float() also reads "nan" and "inf".
Parses(raw) == raw.t = "num" \/ raw.w \in {"nan", "inf"}

float(raw) ==
    IF raw.t = "num" THEN FromRat(raw.n, 1000)
    ELSE IF raw.w = "nan" THEN FNaN
    ELSE FInf(0)

\* a variable that holds None, or is not assigned yet
None == [k |-> "none", s |-> 0, m |-> <<>>, e |-> 0]

F0     == FZero(0)
F1     == FromInt(1)
F2     == FromInt(2)
F100   == FromInt(100)
F500   == FromInt(500)
F0_01  == FromRat(1, 100)
F1_01  == FromRat(101, 100)

SymbolRules(cs, step, lo, hi, d, pts) ==
    [contract_size |-> cs, lot_step |-> step, min_lot |-> lo, max_lot |-> hi,
     digits |-> d, stops_level_points |-> pts]

RulesOf(one, hundred, fivehundred, cent) ==
    [gold   |-> SymbolRules(hundred, cent, cent, hundred,     2, 20),
     btc    |-> SymbolRules(one,     cent, cent, hundred,     2, 0),
     nas100 |-> SymbolRules(one,     cent, cent, fivehundred, 2, 50),
     dj30   |-> SymbolRules(one,     cent, cent, fivehundred, 2, 0)]

RULES == RulesOf(F1, F100, F500, F0_01)

RECURSIVE Pow10(_)
Pow10(d) == IF d = 0 THEN 1 ELSE 10 * Pow10(d - 1)

\* 10 ** (-d): the float power, which for these d is the float nearest 10^-d
point_size(d) == FromRat(1, Pow10(d))

min_stop_distance(r) == FMul(FromInt(r.stops_level_points), point_size(r.digits))

round_price(x, d) == FRound(x, d)

\* math.floor raises on NaN (ValueError) and on an infinity (OverflowError)
FloorRaises(x) == ~IsFin(x)

\* round_down without the floor: the lot is left as computed
round_down_unfloored(x, step) == x

\* round_down rounding up to the next step instead of down
round_down_ceiling(x, step) ==
    FMul(FAdd(IntToFloat(FFloor(FDiv(x, step))), F1), step)

round_down(x, step) == FMul(IntToFloat(FFloor(FDiv(x, step))), step)

\* Python's min and max of two: the first argument unless the second is
\* strictly smaller (larger)
min(a, b) == IF FLt(b, a) THEN b ELSE a
max(a, b) == IF FGt(b, a) THEN b ELSE a

clamp(x, lo, hi) == max(lo, min(hi, x))

RetryCheck(v, min_value) ==
    IF min_value # None /\ FLe(v, min_value)
    THEN [ok |-> FALSE, v |-> None]
    ELSE [ok |-> TRUE, v |-> v]

\* get_float_retry, one turn of its loop on the input raw: whether it
\* returns, and the value
get_float_retry(raw, min_value) ==
    IF ~Parses(raw) THEN [ok |-> FALSE, v |-> None]
    ELSE RetryCheck(float(raw), min_value)

\* get_float_default on the input raw: the value, and whether it printed
\* the invalid-number message
get_float_default(raw, default) ==
    IF raw = Txt("") THEN [v |-> default, said |-> FALSE]
    ELSE IF ~Parses(raw) THEN [v |-> default, said |-> TRUE]
    ELSE [v |-> float(raw), said |-> FALSE]

TooClose(dist, msd) == FGt(msd, F0) /\ FLt(dist, msd)

\* the checks of get_valid_entry_stop on a stop candidate, in the code's
\* order: the message printed, or "" when the pair is returned
StopVerdict(side_, rules, entry_, stop_) ==
    IF FEq(stop_, entry_) THEN "stop_equals_entry"
    ELSE IF side_ = "buy" /\ FGe(stop_, entry_) THEN "buy_stop_must_be_below"
    ELSE IF side_ = "sell" /\ FLe(stop_, entry_) THEN "sell_stop_must_be_above"
    ELSE IF TooClose(FAbs(FSub(entry_, stop_)), min_stop_distance(rules))
         THEN "stop_too_close"
    ELSE ""

-----------------------------------------------------------------------------
(* The inputs tried at each prompt.                                        *)

\* the largest whole-dollar risk amount typed in $ mode
MaxRisk == 7

SymbolInputs == {Txt(""), Txt("gold"), Txt("btc"), Txt("nas100"),
                 Txt("dj30"), Txt("eurusd")}
SideInputs   == {Txt(""), Txt("buy"), Txt("sell"), Txt("long")}
ModeInputs   == {Txt(""), Txt("%"), Txt("$"), Txt("d"), Txt("x")}
EquityInputs == {Num(100000), Num(10000000), Num(0), Txt(""), Txt("abc")}
PctInputs    == {Txt(""), Num(-1000), Txt("abc")}
AmountInputs == {Num(1000 * k) : k \in 1..MaxRisk} \cup {Num(-5000), Txt("")}
RRInputs     == {Txt(""), Num(-1000), Txt("abc")}
EntryInputs  == {Num(2000000), Num(1200), Num(4), Num(0), Txt("abc"),
                 Txt("nan")}
StopInputs   == {Num(1998000), Num(1999950), Num(1999800), Num(2002000),
                 Num(1000), Num(1700), Num(700), Num(1), Txt("")}

-----------------------------------------------------------------------------
(* The state: where main is, its variables, the last input and message.    *)

VARIABLES
    pc,            \* the prompt main waits at, then "calc", "report", "done"
                   \* or "crashed" (an exception left main)
    raw,           \* the input read last
    out,           \* the message printed on that input, "" for none
    got,           \* what the last get_float_retry / get_float_default returned
    symbol, side, risk_mode, equity, risk_pct, risk_dollars, rr,
    entry, stop,
    stop_distance, raw_lot,
    floored,       \* lot after round_down, before clamp
    lot, risk_used, tp,
    warned,        \* whether the actual-risk warning was printed
    actual_pct

vars == <<pc, raw, out, got, symbol, side, risk_mode, equity, risk_pct,
          risk_dollars, rr, entry, stop, stop_distance, raw_lot, floored,
          lot, risk_used, tp, warned, actual_pct>>

inputVars  == <<symbol, side, risk_mode, equity, risk_pct, risk_dollars, rr,
                entry, stop>>
resultVars == <<stop_distance, raw_lot, floored, lot, risk_used, tp, warned,
                actual_pct>>

Init ==
    /\ pc = "symbol"
    /\ raw = Txt("")
    /\ out = ""
    /\ got = None
    /\ symbol = ""
    /\ side = ""
    /\ risk_mode = ""
    /\ equity = None
    /\ risk_pct = None
    /\ risk_dollars = None
    /\ rr = None
    /\ entry = None
    /\ stop = None
    /\ stop_distance = None
    /\ raw_lot = None
    /\ floored = None
    /\ lot = None
    /\ risk_used = None
    /\ tp = None
    /\ warned = FALSE
    /\ actual_pct = None

\* get_symbol falling back to gold on an unknown symbol
get_symbol_fallback(r) ==
    IF r = Txt("") THEN [ok |-> TRUE, v |-> "gold"]
    ELSE IF r.w \in DOMAIN RULES THEN [ok |-> TRUE, v |-> r.w]
    ELSE [ok |-> TRUE, v |-> "gold"]

\* get_symbol on the input r: whether it returns, and the symbol
get_symbol(r) ==
    IF r = Txt("") THEN [ok |-> TRUE, v |-> "gold"]
    ELSE IF r.w \in DOMAIN RULES THEN [ok |-> TRUE, v |-> r.w]
    ELSE [ok |-> FALSE, v |-> ""]

\* symbol, rules = get_symbol(), one turn of its loop
GetSymbol ==
    /\ pc = "symbol"
    /\ \E r \in SymbolInputs :
        /\ raw' = r
        /\ IF get_symbol(r).ok
           THEN symbol' = get_symbol(r).v /\ out' = "" /\ pc' = "side"
           ELSE symbol' = symbol /\ out' = "invalid_symbol" /\ pc' = "symbol"
    /\ UNCHANGED <<got, side, risk_mode, equity, risk_pct, risk_dollars, rr,
                   entry, stop>>
    /\ UNCHANGED resultVars

get_side_default_buy(r) ==
    IF r.w \in {"", "buy"} THEN [v |-> "buy", said |-> ""]
    ELSE IF r.w = "sell" THEN [v |-> "sell", said |-> ""]
    ELSE [v |-> "buy", said |-> "invalid_side"]

GetSide ==
    /\ pc = "side"
    /\ \E r \in SideInputs :
        /\ raw' = r
        /\ side' = get_side_default_buy(r).v
        /\ out' = get_side_default_buy(r).said
    /\ pc' = "mode"
    /\ UNCHANGED <<got, symbol, risk_mode, equity, risk_pct, risk_dollars, rr,
                   entry, stop>>
    /\ UNCHANGED resultVars

get_risk_input(r) == IF r.w \in {"$", "d"} THEN r.w ELSE "%"

\* get_risk_input, and main's branch on it
GetRiskInput ==
    /\ pc = "mode"
    /\ \E r \in ModeInputs :
        /\ raw' = r
        /\ risk_mode' = get_risk_input(r)
        /\ pc' = IF get_risk_input(r) = "%" THEN "equity" ELSE "amount"
    /\ out' = ""
    /\ UNCHANGED <<got, symbol, side, equity, risk_pct, risk_dollars, rr,
                   entry, stop>>
    /\ UNCHANGED resultVars

EquityTurn(r, g) ==
    /\ raw' = r
    /\ IF g.ok
       THEN got' = g.v /\ equity' = g.v /\ out' = "" /\ pc' = "pct"
       ELSE got' = got /\ equity' = equity /\ out' = "invalid_number"
            /\ pc' = "equity"

\* equity = get_float_retry("Equity ($): ", min_value=0), one turn
GetEquity ==
    /\ pc = "equity"
    /\ \E r \in EquityInputs : EquityTurn(r, get_float_retry(r, F0))
    /\ UNCHANGED <<symbol, side, risk_mode, risk_pct, risk_dollars, rr,
                   entry, stop>>
    /\ UNCHANGED resultVars

RiskPctTurn(r, g, hundred) ==
    /\ raw' = r
    /\ got' = g.v
    /\ risk_pct' = g.v
    /\ risk_dollars' = FMul(equity, FDiv(g.v, hundred))
    /\ out' = IF g.said THEN "invalid_number_using_default" ELSE ""

\* risk_pct = get_float_default("Risk % [1]: ", 1.0) and
\* risk_dollars = equity * (risk_pct / 100.0)
GetRiskPct ==
    /\ pc = "pct"
    /\ \E r \in PctInputs : RiskPctTurn(r, get_float_default(r, F1), F100)
    /\ pc' = "rr"
    /\ UNCHANGED <<symbol, side, risk_mode, equity, rr, entry, stop>>
    /\ UNCHANGED resultVars

RiskAmountTurn(r, g) ==
    /\ raw' = r
    /\ IF g.ok
       THEN got' = g.v /\ risk_dollars' = g.v /\ out' = "" /\ pc' = "rr"
       ELSE got' = got /\ risk_dollars' = risk_dollars
            /\ out' = "invalid_number" /\ pc' = "amount"

\* equity = None; risk_dollars = get_float_retry("Risk amount ($): ",
\* min_value=0), one turn
GetRiskAmount ==
    /\ pc = "amount"
    /\ \E r \in AmountInputs : RiskAmountTurn(r, get_float_retry(r, F0))
    /\ UNCHANGED <<symbol, side, risk_mode, equity, risk_pct, rr, entry, stop>>
    /\ UNCHANGED resultVars

RRTurn(r, g) ==
    /\ raw' = r
    /\ got' = g.v
    /\ rr' = g.v
    /\ out' = IF g.said THEN "invalid_number_using_default" ELSE ""

\* rr = get_float_default("Risk:Reward [2]: ", 2.0)
GetRR ==
    /\ pc = "rr"
    /\ \E r \in RRInputs : RRTurn(r, get_float_default(r, F2))
    /\ pc' = "entry"
    /\ UNCHANGED <<symbol, side, risk_mode, equity, risk_pct, risk_dollars,
                   entry, stop>>
    /\ UNCHANGED resultVars

EntryTurn(r, g, rules) ==
    /\ raw' = r
    /\ IF g.ok
       THEN got' = g.v /\ entry' = round_price(g.v, rules.digits)
            /\ out' = "" /\ pc' = "stop"
       ELSE got' = got /\ entry' = entry /\ out' = "invalid_number"
            /\ pc' = "entry"

\* get_valid_entry_stop: entry = round_price(get_float_retry(...)), one turn
GetEntry ==
    /\ pc = "entry"
    /\ \E r \in EntryInputs : EntryTurn(r, get_float_retry(r, F0), RULES[symbol])
    /\ UNCHANGED <<symbol, side, risk_mode, equity, risk_pct, risk_dollars, rr,
                   stop>>
    /\ UNCHANGED resultVars

StopResult(v, c, verdict) ==
    /\ got' = v
    /\ stop' = c
    /\ out' = verdict
    /\ pc' = IF verdict = "" THEN "calc" ELSE "stop"

StopCheck(v, c, rules) == StopResult(v, c, StopVerdict(side, rules, entry, c))

StopTurn(r, g, rules) ==
    /\ raw' = r
    /\ IF g.ok
       THEN StopCheck(g.v, round_price(g.v, rules.digits), rules)
       ELSE got' = got /\ stop' = stop /\ out' = "invalid_number"
            /\ pc' = "stop"

\* get_valid_entry_stop: one turn of the stop loop
GetStop ==
    /\ pc = "stop"
    /\ \E r \in StopInputs : StopTurn(r, get_float_retry(r, F0), RULES[symbol])
    /\ UNCHANGED <<symbol, side, risk_mode, equity, risk_pct, risk_dollars, rr,
                   entry>>
    /\ UNCHANGED resultVars

take_profit(tp_dist) ==
    IF side = "buy" THEN FAdd(entry, tp_dist) ELSE FSub(entry, tp_dist)

CoreResult(rules, dist, raw_, fl, lot_) ==
    /\ pc' = "report"
    /\ stop_distance' = dist
    /\ raw_lot' = raw_
    /\ floored' = fl
    /\ lot' = lot_
    /\ risk_used' = FMul(FMul(dist, rules.contract_size), lot_)
    /\ tp' = round_price(take_profit(FMul(dist, rr)), rules.digits)

CoreClamp(rules, dist, raw_, fl) ==
    CoreResult(rules, dist, raw_, fl, clamp(fl, rules.min_lot, rules.max_lot))

CoreFloor(rules, dist, raw_) ==
    IF FloorRaises(FDiv(raw_, rules.lot_step))
    THEN /\ pc' = "crashed"
         /\ stop_distance' = dist
         /\ raw_lot' = raw_
         /\ UNCHANGED <<floored, lot, risk_used, tp>>
    ELSE CoreClamp(rules, dist, raw_, round_down(raw_, rules.lot_step))

CoreLoss(rules, dist, loss) ==
    IF IsZero(loss)
    THEN /\ pc' = "crashed"
         /\ stop_distance' = dist
         /\ UNCHANGED <<raw_lot, floored, lot, risk_used, tp>>
    ELSE CoreFloor(rules, dist, FDiv(risk_dollars, loss))

CoreDist(rules, dist) == CoreLoss(rules, dist, FMul(dist, rules.contract_size))

\* main, the core math.  The division raises ZeroDivisionError on a zero
\* loss_per_1_lot, and round_down's floor raises on NaN and infinity.
CoreMath ==
    /\ pc = "calc"
    /\ CoreDist(RULES[symbol], FAbs(FSub(entry, stop)))
    /\ UNCHANGED <<raw, out, got, warned, actual_pct>>
    /\ UNCHANGED inputVars

ReportWarning(w, hundred) ==
    /\ warned' = w
    /\ actual_pct' = IF w THEN FMul(FDiv(risk_used, equity), hundred)
                          ELSE actual_pct

\* the warning without the 1% margin: any risk_used >= risk_dollars warns
risk_warning_no_margin(mode, used, dollars) ==
    mode = "%" /\ FGe(used, dollars)

\* risk_mode == "%" and risk_used > risk_dollars * 1.01
risk_warning(mode, used, dollars) ==
    mode = "%" /\ FGt(used, FMul(dollars, F1_01))

\* main, the result and the warning
Report ==
    /\ pc = "report"
    /\ ReportWarning(risk_warning(risk_mode, risk_used, risk_dollars), F100)
    /\ pc' = "done"
    /\ UNCHANGED <<raw, out, got, stop_distance, raw_lot, floored, lot,
                   risk_used, tp>>
    /\ UNCHANGED inputVars

Next ==
    \/ GetSymbol
    \/ GetSide
    \/ GetRiskInput
    \/ GetEquity
    \/ GetRiskPct
    \/ GetRiskAmount
    \/ GetRR
    \/ GetEntry
    \/ GetStop
    \/ CoreMath
    \/ Report

Spec == Init /\ [][Next]_vars

-----------------------------------------------------------------------------
(* The properties.                                                         *)

Computed == pc \in {"report", "done"}

RECURSIVE BToNat(_)
BToNat(a) == IF a = <<>> THEN 0 ELSE a[1] + BASE * BToNat(Tail(a))

\* a finite price in points: the integer x * 10^d of a price of d decimals
Points(x, d) == (1 - 2 * x.s) * BToNat(DecimalOf(x, d))

Abs(i) == IF i < 0 THEN -i ELSE i

\* whether any of the four rejection conditions holds of candidate c
Rejected(side_, rules, entry_, c) ==
    \/ FEq(c, entry_)
    \/ side_ = "buy" /\ FGe(c, entry_)
    \/ side_ = "sell" /\ FLe(c, entry_)
    \/ /\ FGt(min_stop_distance(rules), F0)
       /\ FLt(FAbs(FSub(entry_, c)), min_stop_distance(rules))

\* whether the pair is one the validator is meant to return
ValidPair(side_, rules, entry_, c) ==
    /\ side_ = "buy" => FLt(c, entry_)
    /\ side_ = "sell" => FGt(c, entry_)
    /\ FGt(min_stop_distance(rules), F0)
          => FGe(FAbs(FSub(entry_, c)), min_stop_distance(rules))

\* C1: a stop candidate that parsed (rounded to digits) is accepted and
\* returned if and only if none of the four rejection conditions holds,
\* and every returned pair has the stop strictly below entry for buy,
\* strictly above entry for sell, and at least the minimum distance away
\* when a minimum is enforced.
C1_ValidatorContract ==
    [][(pc = "stop" /\ out' # "invalid_number") =>
         /\ (pc' = "calc") <=> ~Rejected(side, RULES[symbol], entry, stop')
         /\ (pc' = "calc") => ValidPair(side, RULES[symbol], entry, stop')]_vars

\* x = float(k * step) for the integer k nearest x / step
IsStepMultiple(x, step) ==
    FMul(IntToFloat(FFloor(FAdd(FDiv(x, step), FromRat(1, 2)))), step) = x

\* C2: in every run that reaches the result, the final lot is a multiple
\* of the symbol's lot_step (the float k * lot_step of an integer k) and
\* lies within [min_lot, max_lot].
C2_LotWithinRules ==
    Computed =>
        /\ FLe(RULES[symbol].min_lot, lot)
        /\ FLe(lot, RULES[symbol].max_lot)
        /\ IsStepMultiple(lot, RULES[symbol].lot_step)

\* the result of a run whose lot was floored to something strictly below
\* raw_lot and then left alone by the clamp
C2_Witness ==
    /\ pc = "done"
    /\ lot = floored
    /\ FLt(lot, raw_lot)

\* the lot was not raised by the min_lot clamp
NotClampedUp == FGe(floored, RULES[symbol].min_lot)

\* scenario A: gold, buy, equity 10000, risk 1%, entry 2000.00,
\* stop 1998.00, rr 2
ScenarioA ==
    /\ Computed
    /\ symbol = "gold" /\ side = "buy" /\ risk_mode = "%"
    /\ equity = FromInt(10000) /\ risk_pct = F1 /\ rr = F2
    /\ entry = FromInt(2000) /\ stop = FromInt(1998)

ScenarioAResult ==
    /\ raw_lot = FromRat(1, 2)
    /\ lot = FromRat(1, 2)
    /\ risk_used = F100
    /\ tp = FromInt(2004)

\* C3 as claimed: whenever the floored lot is not raised by the min_lot
\* clamp, risk_used <= risk_dollars; and scenario A gives raw_lot 0.5,
\* lot 0.50, risk_used 100.00, take_profit 2004.00.
C3_NeverExceedsBudget ==
    /\ (Computed /\ NotClampedUp) => FLe(risk_used, risk_dollars)
    /\ ScenarioA => ScenarioAResult

\* x <= y * (1 + 2^-50), exactly, for finite positive floats x and y
LeScaled(x, y, lo) ==
    BCmp(BShl(x.m, x.e - lo + 50),
         BMul(BShl(y.m, y.e - lo), BAdd(BShl(<<1>>, 50), <<1>>))) <= 0

WithinRounding(x, y) ==
    /\ IsFin(x) /\ IsFin(y) /\ ~IsZero(x) /\ ~IsZero(y)
    /\ x.s = 0 /\ y.s = 0
    /\ LeScaled(x, y, IF x.e < y.e THEN x.e ELSE y.e)

\* C3, amended: whenever the floored lot is not raised by the min_lot
\* clamp, risk_used exceeds risk_dollars by no more than the rounding of
\* the float operations, risk_used <= risk_dollars * (1 + 2^-50); and
\* scenario A gives raw_lot 0.5, lot 0.50, risk_used 100.00,
\* take_profit 2004.00.
C3_ExceedsByRoundingOnly ==
    /\ (Computed /\ NotClampedUp) => WithinRounding(risk_used, risk_dollars)
    /\ ScenarioA => ScenarioAResult

\* the result of a run whose lot was not clamped up and whose risk_used
\* is above risk_dollars all the same
C3_Witness ==
    /\ pc = "done"
    /\ NotClampedUp
    /\ FGt(risk_used, risk_dollars)

\* scenario B: gold, buy, equity 100, risk 1%, entry 2000.00, stop 1998.00
ScenarioB ==
    /\ pc = "done"
    /\ symbol = "gold" /\ side = "buy" /\ risk_mode = "%"
    /\ equity = F100 /\ risk_pct = F1
    /\ entry = FromInt(2000) /\ stop = FromInt(1998)

ScenarioBResult ==
    /\ raw_lot = FromRat(5, 1000)
    /\ floored = F0
    /\ lot = F0_01
    /\ risk_used = F2
    /\ warned
    /\ actual_pct = F2

\* C4: the warning is printed if and only if the risk was given as a
\* percentage of equity and risk_used > risk_dollars * 1.01; never in an
\* absolute-amount mode, and never when the lot was clamped down to
\* max_lot; scenario B gives raw_lot 0.005, floored to 0.00, clamped up to
\* 0.01, risk_used 2.00, and the warning with 2.00% of equity.
C4_WarningOneSided ==
    /\ pc = "done" =>
          /\ warned <=> (risk_mode = "%"
                         /\ FGt(risk_used, FMul(risk_dollars, F1_01)))
          /\ risk_mode \in {"$", "d"} => ~warned
          /\ FGt(floored, RULES[symbol].max_lot) => ~warned
    /\ ScenarioB => ScenarioBResult
    /\ pc # "done" => ~warned

C4_Witness == ScenarioB /\ warned

\* C5 as claimed: an unknown symbol falls back to the default symbol, the
\* run continuing with gold.
C5_UnknownFallsBack ==
    [][(pc = "symbol" /\ raw' # Txt("") /\ raw'.w \notin DOMAIN RULES)
         => (pc' = "side" /\ symbol' = "gold")]_vars

\* C5, amended: an unknown symbol is answered with the invalid-symbol
\* message and prompted for again, no symbol being chosen; the run goes on
\* with gold only on the empty input, and with the symbol typed when it
\* is registered.
C5_UnknownReprompts ==
    /\ out = "invalid_symbol" =>
          /\ pc = "symbol" /\ symbol = ""
          /\ raw # Txt("") /\ raw.w \notin DOMAIN RULES
    /\ pc = "side" =>
          \/ raw = Txt("") /\ symbol = "gold"
          \/ raw.w \in DOMAIN RULES /\ symbol = raw.w

C5_Witness == out = "invalid_symbol"

\* the candidate read last at the stop prompt, in points from the entry,
\* when both are finite and the candidate is on the right side of entry
Sided(pe, ps) == (side = "buy" /\ ps < pe) \/ (side = "sell" /\ ps > pe)

BoundaryCase(P, pe, ps) ==
    (P > 0 /\ Sided(pe, ps)) =>
        /\ Abs(pe - ps) = P => (pc = "calc" /\ out = "")
        /\ Abs(pe - ps) = P - 1 => (pc = "stop" /\ out = "stop_too_close")

\* C6: the minimum-stop-distance boundary is inclusive: with
\* stops_level_points = P > 0, a correctly-sided stop exactly P points from
\* entry is accepted and one P - 1 points away is rejected; gold, buy,
\* entry 2000.00, stop 1999.95 is rejected as too close and prompted for
\* again.
C6_BoundaryInclusive ==
    /\ (pc \in {"stop", "calc"} /\ stop # None /\ out # "invalid_number"
        /\ IsFin(entry) /\ IsFin(stop)) =>
          BoundaryCase(RULES[symbol].stops_level_points,
                       Points(entry, RULES[symbol].digits),
                       Points(stop, RULES[symbol].digits))
    /\ (symbol = "gold" /\ side = "buy" /\ entry = FromInt(2000)
        /\ pc \in {"stop", "calc"} /\ raw = Num(1999950)) =>
          (pc = "stop" /\ out = "stop_too_close")

\* C7: raw_lot is >= 0 whenever round_down is called.
C7_RawLotNonNegative ==
    (pc \in {"report", "done", "crashed"} /\ raw_lot # None)
        => FGe(raw_lot, F0)

Required == {"equity", "amount", "entry", "stop"}
Optional == {"pct", "rr"}

NotPositive(r) == ~Parses(r) \/ (r.t = "num" /\ r.n <= 0)

Default(p) == IF p = "pct" THEN F1 ELSE F2

\* C8: a required numeric field is prompted for again after each
\* unparseable or non-positive input and only ever yields the parsed
\* value, strictly greater than 0; an optional numeric field consumes
\* exactly one input and yields its default (1.0, 2.0) when that input is
\* empty or unparseable, the parsed value otherwise.
C8_RetryAndDefaultPolicies ==
    [][/\ pc \in Required =>
            /\ NotPositive(raw') => (out' = "invalid_number" /\ pc' = pc)
            /\ out' = "invalid_number" => (pc' = pc /\ got' = got)
            /\ out' # "invalid_number" =>
                  (Parses(raw') /\ got' = float(raw') /\ FGt(got', F0))
       /\ pc \in Optional =>
            /\ pc' # pc
            /\ got' = IF Parses(raw') THEN float(raw') ELSE Default(pc)]_vars

\* C9: in every run that reaches the result the take-profit lies strictly
\* on the other side of entry from the stop: stop < entry < take_profit
\* for buy, take_profit < entry < stop for sell.
C9_TakeProfitOpposite ==
    Computed =>
        /\ side = "buy" => (FLt(stop, entry) /\ FLt(entry, tp))
        /\ side = "sell" => (FLt(tp, entry) /\ FLt(entry, stop))

Accepts(r, rules) ==
    /\ get_float_retry(r, F0).ok
    /\ StopVerdict(side, rules, entry, round_price(float(r), rules.digits)) = ""

\* C10: the stop loop can always be left: whatever entry was accepted,
\* some stop input passes get_float_retry and the four checks.
C10_StopLoopCanExit ==
    pc = "stop" => \E r \in StopInputs : Accepts(r, RULES[symbol])

=============================================================================
